---- MODULE Spec2Model ----
(***************************************************************************)
(* Model of the SODA API demo notebook (src/A1/SODA_API_demo.ipynb).       *)
(*                                                                         *)
(* Spec     the query cell and the CSV export cell, run once, in order,    *)
(*          statement by statement; an uncaught exception ends the run.    *)
(* SpecUrl  the two ways the notebook builds a URL, followed by a standard *)
(*          query-string decoding of the built URL.                        *)
(* SpecCsv  csv.writer on the text-mode output file, followed by a         *)
(*          standard CSV parse of the bytes left in the file.              *)
(*                                                                         *)
(* Environment: the server may answer with any status and any body, or not *)
(* at all; the output file may already exist; the platform's line          *)
(* separator is either "\n" or "\r\n".  The file system accepts every      *)
(* open and write (no I/O error is modelled).                              *)
(***************************************************************************)
EXTENDS Integers, Sequences, FiniteSets, TLC

VARIABLES
    pc,            \* position in the notebook run
    bp_request,    \* the Response object bound by requests.get
    bp_data,       \* the value bound by bp_request.json()
    err,           \* the exception propagating / that ended the run
    file0,         \* what the output file held before the run
    file,          \* rows held by the output file
    handleOpen,    \* csv_outfile is open
    idx,           \* 1-based position of the for loop in bp_data
    getCount,      \* HTTP GETs issued
    exportPasses,  \* times the export's with-block was entered
    upc, qkey, qval, mode, url, decoded,      \* URL building (SpecUrl)
    cpc, linesep, row, raw, parsed            \* CSV writing (SpecCsv)

pipeVars == <<pc, bp_request, bp_data, err, file0, file, handleOpen, idx,
              getCount, exportPasses>>
urlVars  == <<upc, qkey, qval, mode, url, decoded>>
csvVars  == <<cpc, linesep, row, raw, parsed>>
vars     == <<pipeVars, urlVars, csvVars>>

\* Largest number of elements of a response body the model enumerates.
MaxRecords == 2

-----------------------------------------------------------------------------
(* Data: JSON values as the export sees them.                              *)

\* The source fields the export cell reads, in the order of the row tuple.
Fields == <<"PermitNum", "Description", "PermitClass", "CompletedDate">>

FieldSet == {Fields[k] : k \in 1..Len(Fields)}

\* Marks a key the JSON object does not have.
Absent == "<absent>"

FieldValues(f) ==
    CASE f = "PermitNum"     -> {"A1", "A2"}
      [] f = "Description"   -> {"d"}
      [] f = "PermitClass"   -> {"c"}
      [] f = "CompletedDate" -> {"t"}

\* A JSON object of the array: each field is present with a value, or absent.
Objects ==
    {[kind |-> "obj", vals |-> v] :
        v \in {w \in [FieldSet -> {"A1", "A2", "d", "c", "t", Absent}] :
                  \A f \in FieldSet : w[f] \in FieldValues(f) \cup {Absent}}}

\* Any element that is a str: an array element that is a JSON string, or a key
\* of a JSON object (iterating a dict yields its keys).
StrElem == [kind |-> "str", vals |-> [f \in FieldSet |-> Absent]]

Elements == Objects \cup {StrElem}

SeqsUpTo(S, n) == UNION {[1..m -> S] : m \in 0..n}

\* Response bodies: text that is not JSON, a JSON array, a JSON object.
NoBody == [valid |-> FALSE, shape |-> "none", elems |-> <<>>]

Bodies ==
    {NoBody}
    \cup {[valid |-> TRUE, shape |-> "array", elems |-> s] :
             s \in SeqsUpTo(Elements, MaxRecords)}
    \cup {[valid |-> TRUE, shape |-> "object", elems |-> [j \in 1..m |-> StrElem]] :
             m \in 0..MaxRecords}

Statuses == {200, 404}

NoResponse == [status |-> 0, body |-> NoBody]

Unbound == [shape |-> "unbound", elems |-> <<>>]

\* The header tuple of the export cell.
Header == <<"permit number", "description", "building type", "completed date">>

OldRow == <<"old", "old", "old", "old">>

OldFiles == {<<>>, <<OldRow, OldRow, OldRow, OldRow>>}

-----------------------------------------------------------------------------
(* The query cell and the export cell.                                     *)

\* An uncaught exception e ends the run.
Raise(e) == pc' = "raised" /\ err' = e

GetRetrying ==
    /\ pc = "get"
    /\ getCount < 3
    /\ getCount' = getCount + 1
    /\ \/ /\ UNCHANGED <<pc, err, bp_request>>
       \/ /\ \E st \in Statuses, b \in Bodies : bp_request' = [status |-> st, body |-> b]
          /\ pc' = "json"
          /\ UNCHANGED err
    /\ UNCHANGED <<bp_data, file0, file, handleOpen, idx, exportPasses>>

\* bp_request = requests.get(bp_endpoint, params=bp_api_params): one GET; it
\* raises when no response arrives, and returns the Response whatever its
\* status is.
Get ==
    /\ pc = "get"
    /\ getCount' = getCount + 1
    /\ \/ /\ Raise("ConnectionError")
          /\ UNCHANGED bp_request
       \/ /\ \E st \in Statuses, b \in Bodies : bp_request' = [status |-> st, body |-> b]
          /\ pc' = "json"
          /\ UNCHANGED err
    /\ UNCHANGED <<bp_data, file0, file, handleOpen, idx, exportPasses>>

JsonLenient ==
    /\ pc = "json"
    /\ bp_data' = IF bp_request.body.valid
                  THEN [shape |-> bp_request.body.shape, elems |-> bp_request.body.elems]
                  ELSE [shape |-> "array", elems |-> <<>>]
    /\ pc' = "preview"
    /\ UNCHANGED <<bp_request, err, file0, file, handleOpen, idx, getCount, exportPasses>>

\* bp_data = bp_request.json(): raises on a body that is not JSON, and binds
\* any JSON value otherwise.
Json ==
    /\ pc = "json"
    /\ IF bp_request.body.valid
       THEN /\ bp_data' = [shape |-> bp_request.body.shape,
                           elems |-> bp_request.body.elems]
            /\ pc' = "preview"
            /\ UNCHANGED err
       ELSE /\ Raise("JSONDecodeError")
            /\ UNCHANGED bp_data
    /\ UNCHANGED <<bp_request, file0, file, handleOpen, idx, getCount, exportPasses>>

\* pprint(bp_request.url); pprint(bp_data[:5]): slicing a dict raises.
Preview ==
    /\ pc = "preview"
    /\ IF bp_data.shape = "object"
       THEN Raise("TypeError")
       ELSE pc' = "open" /\ UNCHANGED err
    /\ UNCHANGED <<bp_request, bp_data, file0, file, handleOpen, idx, getCount,
                   exportPasses>>

OpenAppend(f) == f

\* What a file holding f holds after open(name, 'w').
OpenTruncate(f) == <<>>

\* with open('1000_most_recent_residential_permits.csv', 'w', ...) as csv_outfile:
\*     writer = csv.writer(csv_outfile)
OpenFile ==
    /\ pc = "open"
    /\ file' = OpenTruncate(file)
    /\ handleOpen' = TRUE
    /\ exportPasses' = exportPasses + 1
    /\ pc' = "header"
    /\ UNCHANGED <<bp_request, bp_data, err, file0, idx, getCount>>

\* writer.writerow(('permit number', 'description', 'building type', 'completed date'))
WriteHeader ==
    /\ pc = "header"
    /\ file' = Append(file, Header)
    /\ idx' = 1
    /\ pc' = "rows"
    /\ UNCHANGED <<bp_request, bp_data, err, file0, handleOpen, getCount, exportPasses>>

\* b[...] with a str key is defined for b: a dict, never a str.
Indexable(b) == b.kind = "obj"

HasKeyDefaulting(b, f) == TRUE

\* b[f] finds the key f.
HasKey(b, f) == b.vals[f] # Absent

\* The value of the subscription b[f] where it does not raise.
Subscript(b, f) == b.vals[f]

ProjectRowSwapped(b) ==
    <<Subscript(b, "PermitNum"), Subscript(b, "PermitClass"),
      Subscript(b, "Description"), Subscript(b, "CompletedDate")>>

\* (b['PermitNum'], b['Description'], b['PermitClass'], b['CompletedDate'])
ProjectRow(b) == [k \in 1..Len(Fields) |-> Subscript(b, Fields[k])]

ExhaustedEarly(k, data) == k >= Len(data.elems)

\* for b in bp_data: the iterator is exhausted after the last element.
Exhausted(k, data) == k > Len(data.elems)

\* One turn of "for b in bp_data": leave the loop, or build the row tuple
\* (which raises on the first subscription that fails) and write it.
WriteRow ==
    /\ pc = "rows"
    /\ IF Exhausted(idx, bp_data)
       THEN /\ pc' = "exit"
            /\ UNCHANGED <<err, file, idx>>
       ELSE LET b == bp_data.elems[idx] IN
            IF ~Indexable(b)
            THEN /\ pc' = "exit" /\ err' = "TypeError"
                 /\ UNCHANGED <<file, idx>>
            ELSE IF \E f \in FieldSet : ~HasKey(b, f)
            THEN /\ pc' = "exit" /\ err' = "KeyError"
                 /\ UNCHANGED <<file, idx>>
            ELSE /\ file' = Append(file, ProjectRow(b))
                 /\ idx' = idx + 1
                 /\ UNCHANGED <<pc, err>>
    /\ UNCHANGED <<bp_request, bp_data, file0, handleOpen, getCount, exportPasses>>

WithExitLeaking ==
    /\ pc = "exit"
    /\ handleOpen' = (err # "none")
    /\ pc' = IF err = "none" THEN "done" ELSE "raised"
    /\ UNCHANGED <<bp_request, bp_data, err, file0, file, idx, getCount, exportPasses>>

\* Leaving the with-block, normally or by an exception: the file is closed,
\* and a pending exception goes on propagating.
WithExit ==
    /\ pc = "exit"
    /\ handleOpen' = FALSE
    /\ pc' = IF err = "none" THEN "done" ELSE "raised"
    /\ UNCHANGED <<bp_request, bp_data, err, file0, file, idx, getCount, exportPasses>>

\* Before the query cell runs; the output file may exist from an earlier run.
Init ==
    /\ pc = "get"
    /\ bp_request = NoResponse
    /\ bp_data = Unbound
    /\ err = "none"
    /\ file0 \in OldFiles
    /\ file = file0
    /\ handleOpen = FALSE
    /\ idx = 0
    /\ getCount = 0
    /\ exportPasses = 0
    /\ upc = "idle" /\ qkey = <<>> /\ qval = <<>> /\ mode = "none"
    /\ url = <<>> /\ decoded = <<>>
    /\ cpc = "idle" /\ linesep = <<>> /\ row = <<>> /\ raw = <<>> /\ parsed = <<>>

Next ==
    \/ Get /\ UNCHANGED <<urlVars, csvVars>>
    \/ Json /\ UNCHANGED <<urlVars, csvVars>>
    \/ Preview /\ UNCHANGED <<urlVars, csvVars>>
    \/ OpenFile /\ UNCHANGED <<urlVars, csvVars>>
    \/ WriteHeader /\ UNCHANGED <<urlVars, csvVars>>
    \/ WriteRow /\ UNCHANGED <<urlVars, csvVars>>
    \/ WithExit /\ UNCHANGED <<urlVars, csvVars>>

Spec == Init /\ [][Next]_vars

-----------------------------------------------------------------------------
(* Properties of the query cell and the export cell (checked under Spec).  *)

Terminal == pc \in {"done", "raised"}

ExportRan == exportPasses > 0

NumRecords == Len(bp_data.elems)

AllObjects == \A k \in 1..NumRecords : bp_data.elems[k].kind = "obj"

Lacks(b) == \E f \in FieldSet : b.vals[f] = Absent

\* The (output column, source field) pairs of the export, in column order.
SourceOf ==
    [h \in {Header[c] : c \in 1..Len(Header)} |->
        CASE h = "permit number"  -> "PermitNum"
          [] h = "description"    -> "Description"
          [] h = "building type"  -> "PermitClass"
          [] h = "completed date" -> "CompletedDate"]

\* The row a Record with every field projects to.
ExpectedRow(b) == [c \in 1..Len(Header) |-> b.vals[SourceOf[Header[c]]]]

\* The row the tolerant export would write: "" where the field is missing.
TolerantRow(b) ==
    [c \in 1..Len(Header) |->
        IF b.vals[SourceOf[Header[c]]] = Absent THEN "" ELSE b.vals[SourceOf[Header[c]]]]

\* 1-based position of the first Record that lacks a field (NumRecords + 1 if none).
FirstLacking ==
    IF \E k \in 1..NumRecords : Lacks(bp_data.elems[k])
    THEN CHOOSE k \in 1..NumRecords :
            /\ Lacks(bp_data.elems[k])
            /\ \A j \in 1..(k - 1) : ~Lacks(bp_data.elems[j])
    ELSE NumRecords + 1

NonSuccess == bp_request.status # 0 /\ bp_request.status # 200

\* C2 as stated, by its effect on the file: in an execution whose response
\* status is not a success the fetch fails, so the output file is untouched or
\* empty and holds no header row and no data row.
C2_NonSuccessWritesNothing ==
    NonSuccess => file \in {file0, <<>>}

\* C3: a completed export leaves exactly N+1 rows, the header and then one row
\* per Record, each Record (identified by its permit number) written once, at
\* its own position.
C3_HeaderPlusOneRowPerRecord ==
    pc = "done" =>
        /\ Len(file) = NumRecords + 1
        /\ file[1] = Header
        /\ \A k \in 1..NumRecords : file[k + 1][1] = bp_data.elems[k].vals["PermitNum"]

C3_Witness ==
    /\ pc = "done" /\ NumRecords = 2
    /\ bp_data.elems[1].vals["PermitNum"] # bp_data.elems[2].vals["PermitNum"]

\* C4: in every final state of the run, after normal completion as after an
\* exception raised inside the with-block, the output file handle is closed.
C4_HandleClosedOnEveryExit ==
    Terminal => ~handleOpen

C4_Witness ==
    /\ pc = "raised" /\ ExportRan /\ err \in {"KeyError", "TypeError"}
    /\ Len(file) >= 2 /\ ~handleOpen

BadBody ==
    /\ bp_request.status # 0
    /\ \/ ~bp_request.body.valid
       \/ bp_request.body.shape # "array"
       \/ \E k \in 1..Len(bp_request.body.elems) : bp_request.body.elems[k].kind # "obj"

C7_OneGetOneExportPass ==
    /\ getCount <= 1
    /\ pc # "get" => getCount = 1
    /\ exportPasses <= 1
    /\ ExportRan => (getCount = 1 /\ bp_data.elems = bp_request.body.elems)
    /\ pc = "done" => exportPasses = 1

C7_Witness ==
    /\ pc = "raised" /\ err = "ConnectionError" /\ getCount = 1 /\ ~ExportRan

\* C8: whenever the export has written anything, the first row is the header,
\* row k+1 is the projection of Record k with its cells in the order of the
\* header's columns, and there are no rows beyond the Records'.
C8_HeaderFirstRowsInOrder ==
    (ExportRan /\ file # <<>>) =>
        /\ file[1] = Header
        /\ Len(file) <= NumRecords + 1
        /\ \A k \in 1..(Len(file) - 1) : \A c \in 1..Len(Header) :
              file[k + 1][c] = bp_data.elems[k].vals[SourceOf[Header[c]]]

C8_Witness ==
    /\ pc = "done" /\ Len(file) = 3 /\ file[2] # file[3]

\* C10: opening the file for the export discards what it held; if the export
\* aborts at the Record at 0-based position k, the file holds exactly the
\* header and the rows of the first k Records.
C10_AbortLeavesHeaderAndPrefix ==
    /\ (ExportRan /\ pc # "header") => (file # <<>> /\ \A k \in 1..Len(file) : file[k] # OldRow)
    /\ (ExportRan /\ pc = "header") => file = <<>>
    /\ (ExportRan /\ pc = "raised") =>
          /\ idx <= NumRecords
          /\ file = <<Header>> \o [k \in 1..(idx - 1) |-> ExpectedRow(bp_data.elems[k])]

C10_Witness ==
    /\ pc = "raised" /\ ExportRan /\ file0 # <<>> /\ idx = 2 /\ Len(file) = 2

-----------------------------------------------------------------------------
(* URL building.  A string is a sequence of one-character strings.         *)

\* Longest parameter value the model enumerates.
MaxValLen == 2

\* Characters of names and values: a letter, and the characters a SODA query
\* uses that are special in a URL.
Chars == {"z", " ", "'", "(", ")", ",", "=", "&", "+", "%"}

Strings(n) == UNION {[1..m -> Chars] : m \in 0..n}

\* The two parameter names, "$w" standing for "$where" and "$l" for "$limit".
WhereKey == <<"$", "w">>
LimitKey == <<"$", "l">>

\* QueryParameters: one entry, or two, in insertion order.
Mappings ==
    {<<[k |-> WhereKey, v |-> v1]>> : v1 \in Strings(MaxValLen)}
    \cup {<<[k |-> WhereKey, v |-> v1], [k |-> LimitKey, v |-> v2]>> :
             v1 \in Strings(MaxValLen), v2 \in Strings(1)}

\* "https://data.seattle.gov/resource/76t5-zqzr.json?", abbreviated.
Endpoint == <<"j", "?">>

\* %XX escapes of the characters that are not unreserved.
HexOf ==
    [c \in {"$", "'", "(", ")", ",", "=", "&", "+", "%"} |->
        CASE c = "$" -> <<"2", "4">>
          [] c = "'" -> <<"2", "7">>
          [] c = "(" -> <<"2", "8">>
          [] c = ")" -> <<"2", "9">>
          [] c = "," -> <<"2", "C">>
          [] c = "=" -> <<"3", "D">>
          [] c = "&" -> <<"2", "6">>
          [] c = "+" -> <<"2", "B">>
          [] c = "%" -> <<"2", "5">>]

QuoteCharAmpSafe(c) ==
    IF c = " " THEN <<"+">>
    ELSE IF c \in DOMAIN HexOf /\ c # "&" THEN <<"%">> \o HexOf[c]
    ELSE <<c>>

\* quote_plus on one character, as urlencode applies it to names and values:
\* a space becomes "+", an unreserved character stays, any other is escaped.
QuoteChar(c) ==
    IF c = " " THEN <<"+">>
    ELSE IF c \in DOMAIN HexOf THEN <<"%">> \o HexOf[c]
    ELSE <<c>>

RECURSIVE QuotePlus(_)
QuotePlus(str) ==
    IF str = <<>> THEN <<>> ELSE QuoteChar(Head(str)) \o QuotePlus(Tail(str))

\* urlencode(params): "name=value" pieces joined by "&".
RECURSIVE UrlEncode(_)
UrlEncode(m) ==
    IF m = <<>> THEN <<>>
    ELSE QuotePlus(m[1].k) \o <<"=">> \o QuotePlus(m[1].v)
         \o (IF Len(m) > 1 THEN <<"&">> ELSE <<>>) \o UrlEncode(Tail(m))

\* A parameter string written out by hand, as test_params is: nothing escaped.
RECURSIVE RawParams(_)
RawParams(m) ==
    IF m = <<>> THEN <<>>
    ELSE m[1].k \o <<"=">> \o m[1].v
         \o (IF Len(m) > 1 THEN <<"&">> ELSE <<>>) \o RawParams(Tail(m))

\* A mapping has been chosen; the pipeline and the CSV writer are not run.
UrlInit ==
    /\ upc = "build"
    /\ \E m \in Mappings : /\ qkey = [j \in 1..Len(m) |-> m[j].k]
                          /\ qval = [j \in 1..Len(m) |-> m[j].v]
    /\ mode = "none"
    /\ url = <<>>
    /\ decoded = <<>>
    /\ pc = "idle" /\ bp_request = NoResponse /\ bp_data = Unbound /\ err = "none"
    /\ file0 = <<>> /\ file = <<>> /\ handleOpen = FALSE /\ idx = 0
    /\ getCount = 0 /\ exportPasses = 0
    /\ cpc = "idle" /\ linesep = <<>> /\ row = <<>> /\ raw = <<>> /\ parsed = <<>>

QueryParameters == [j \in 1..Len(qkey) |-> [k |-> qkey[j], v |-> qval[j]]]

\* requests.get(bp_endpoint, params=bp_api_params): the endpoint's query is
\* empty, so the URL (bp_request.url) is the endpoint followed by the encoded
\* parameters.
BuildWithParams ==
    /\ upc = "build"
    /\ mode' = "params"
    /\ url' = Endpoint \o UrlEncode(QueryParameters)
    /\ upc' = "built"
    /\ UNCHANGED <<qkey, qval, decoded>>

\* test_url = test_endpoint + test_params
BuildByConcat ==
    /\ upc = "build"
    /\ mode' = "concat"
    /\ url' = Endpoint \o RawParams(QueryParameters)
    /\ upc' = "built"
    /\ UNCHANGED <<qkey, qval, decoded>>

-----------------------------------------------------------------------------
(* Standard decoding of a URL's query (urlsplit, then parse_qsl keeping    *)
(* blank values).                                                          *)

CharOf == [h \in {HexOf[c] : c \in DOMAIN HexOf} |-> CHOOSE c \in DOMAIN HexOf : HexOf[c] = h]

\* The part of the URL after the first "?".
RECURSIVE QueryOf(_)
QueryOf(u) ==
    IF u = <<>> THEN <<>>
    ELSE IF Head(u) = "?" THEN Tail(u) ELSE QueryOf(Tail(u))

\* The pieces of str between occurrences of sep.
RECURSIVE SplitOn(_, _)
SplitOn(str, sep) ==
    IF \A j \in 1..Len(str) : str[j] # sep THEN <<str>>
    ELSE LET p == CHOOSE j \in 1..Len(str) :
                      str[j] = sep /\ \A q \in 1..(j - 1) : str[q] # sep
         IN <<SubSeq(str, 1, p - 1)>> \o SplitOn(SubSeq(str, p + 1, Len(str)), sep)

\* unquote_plus: "+" is a space, %XX is the escaped character, and a "%" not
\* followed by two hex digits stands for itself.
RECURSIVE UnquotePlus(_)
UnquotePlus(str) ==
    IF str = <<>> THEN <<>>
    ELSE IF Head(str) = "+" THEN <<" ">> \o UnquotePlus(Tail(str))
    ELSE IF Head(str) = "%" /\ Len(str) >= 3 /\ SubSeq(str, 2, 3) \in DOMAIN CharOf
         THEN <<CharOf[SubSeq(str, 2, 3)]>> \o UnquotePlus(SubSeq(str, 4, Len(str)))
    ELSE <<Head(str)>> \o UnquotePlus(Tail(str))

\* One "name=value" piece: split at the first "=", both sides unquoted.
DecodePiece(piece) ==
    LET parts == SplitOn(piece, "=")
        rest  == SubSeq(piece, Len(parts[1]) + 2, Len(piece))
    IN [k |-> UnquotePlus(parts[1]), v |-> UnquotePlus(rest)]

ParseQsl(query) ==
    LET pieces == SelectSeq(SplitOn(query, "&"), LAMBDA x : x # <<>>)
    IN [j \in 1..Len(pieces) |-> DecodePiece(pieces[j])]

Decode ==
    /\ upc = "built"
    /\ decoded' = ParseQsl(QueryOf(url))
    /\ upc' = "decoded"
    /\ UNCHANGED <<qkey, qval, mode, url>>

UrlNext ==
    \/ BuildWithParams /\ UNCHANGED <<pipeVars, csvVars>>
    \/ BuildByConcat /\ UNCHANGED <<pipeVars, csvVars>>
    \/ Decode /\ UNCHANGED <<pipeVars, csvVars>>

SpecUrl == UrlInit /\ [][UrlNext]_vars

\* C6 as stated: whichever way the URL was built, decoding it gives back
\* exactly the names and values of the mapping.
C6_UrlDecodesBack ==
    upc = "decoded" => decoded = QueryParameters

\* Characters that a hand-written parameter string cannot carry unescaped.
QuerySpecial == {"&", "+", "%"}

PlainValues == \A j \in 1..Len(qval) : \A q \in 1..Len(qval[j]) : qval[j][q] \notin QuerySpecial

\* C6 amended: the URL built by passing the mapping as params decodes back to
\* exactly the names and values of the mapping, whatever characters the values
\* hold; the URL built by concatenating a parameter string onto the endpoint
\* does so when no value holds "&", "+" or "%".
C6_ParamsUrlDecodesBack ==
    (upc = "decoded" /\ (mode = "params" \/ PlainValues)) => decoded = QueryParameters

C6_Witness ==
    /\ upc = "decoded" /\ mode = "params" /\ Len(qval) = 2
    /\ qval[1] = <<"&", "=">> /\ qval[2] = <<" ">>
    /\ decoded = QueryParameters

-----------------------------------------------------------------------------
(* CSV writing: csv.writer(csv_outfile) with the default (excel) dialect,  *)
(* on a file opened in text mode without a newline argument.               *)

\* Longest cell value the model enumerates.
MaxCellLen == 2

CR == "<CR>"
LF == "<LF>"
Comma == ","
Quote == "<QUOTE>"

CsvChars == {"z", Comma, Quote, CR, LF}

CsvStrings(n) == UNION {[1..m -> CsvChars] : m \in 0..n}

\* The header tuple, each title taken as one plain character.
HeaderCells == [c \in 1..Len(Header) |-> <<Header[c]>>]

\* Rows of as many cells as the row tuple of the export cell.
CsvRows ==
    {[c \in 1..Len(Fields) |-> IF c = 1 THEN v1 ELSE IF c = 2 THEN v2 ELSE <<"z">>] :
        v1 \in CsvStrings(MaxCellLen), v2 \in CsvStrings(1)}

\* os.linesep: what "\n" is written as by a text-mode file opened without a
\* newline argument; it depends on the platform the notebook runs on.
LineSeps == {<<LF>>, <<CR, LF>>}

\* QUOTE_MINIMAL: a field is quoted when it holds the delimiter, the quote
\* character or a character of the line terminator.
NeedsQuotes(cell) == \E j \in 1..Len(cell) : cell[j] \in {Comma, Quote, CR, LF}

\* doublequote: a quote character inside a quoted field is written twice.
RECURSIVE DoubleQuotes(_)
DoubleQuotes(cell) ==
    IF cell = <<>> THEN <<>>
    ELSE (IF Head(cell) = Quote THEN <<Quote, Quote>> ELSE <<Head(cell)>>)
         \o DoubleQuotes(Tail(cell))

QuoteField(cell) ==
    IF NeedsQuotes(cell) THEN <<Quote>> \o DoubleQuotes(cell) \o <<Quote>> ELSE cell

RECURSIVE JoinFields(_)
JoinFields(r) ==
    IF r = <<>> THEN <<>>
    ELSE QuoteField(r[1]) \o (IF Len(r) > 1 THEN <<Comma>> ELSE <<>>) \o JoinFields(Tail(r))

\* writer.writerow(r): the text handed to csv_outfile.write; the excel
\* dialect's line terminator is "\r\n".
RowText(r) == JoinFields(r) \o <<CR, LF>>

\* Text-mode write: every "\n" of the text is written as sep.
RECURSIVE TranslateNewlines(_, _)
TranslateNewlines(text, sep) ==
    IF text = <<>> THEN <<>>
    ELSE (IF Head(text) = LF THEN sep ELSE <<Head(text)>>)
         \o TranslateNewlines(Tail(text), sep)

\* A platform and a row have been chosen; the pipeline and the URL cells are
\* not run.
CsvInit ==
    /\ cpc = "write"
    /\ linesep \in LineSeps
    /\ row \in CsvRows
    /\ raw = <<>>
    /\ parsed = <<>>
    /\ pc = "idle" /\ bp_request = NoResponse /\ bp_data = Unbound /\ err = "none"
    /\ file0 = <<>> /\ file = <<>> /\ handleOpen = FALSE /\ idx = 0
    /\ getCount = 0 /\ exportPasses = 0
    /\ upc = "idle" /\ qkey = <<>> /\ qval = <<>> /\ mode = "none"
    /\ url = <<>> /\ decoded = <<>>

\* The header row and one data row written through csv_outfile; the file is
\* closed on leaving the with-block, so raw is what the file holds.
CsvWrite ==
    /\ cpc = "write"
    /\ raw' = TranslateNewlines(RowText(HeaderCells), linesep)
              \o TranslateNewlines(RowText(row), linesep)
    /\ cpc' = "written"
    /\ UNCHANGED <<linesep, row, parsed>>

-----------------------------------------------------------------------------
(* A standard CSV parse of the file's bytes (csv.reader, excel dialect,    *)
(* the file read with newline='').                                         *)

\* text: what is left to read; inq: inside a quoted field; fresh: at the start
\* of a field; started: the record has content; field, fields, rows: what has
\* been read so far.
RECURSIVE ParseCsv(_, _, _, _, _, _, _)
ParseCsv(text, inq, fresh, started, field, fields, rows) ==
    IF text = <<>>
    THEN IF started THEN Append(rows, Append(fields, field)) ELSE rows
    ELSE LET c == Head(text) IN
         IF inq
         THEN IF c = Quote
              THEN IF Len(text) >= 2 /\ text[2] = Quote
                   THEN ParseCsv(SubSeq(text, 3, Len(text)), TRUE, FALSE, TRUE,
                                 Append(field, Quote), fields, rows)
                   ELSE ParseCsv(Tail(text), FALSE, FALSE, TRUE, field, fields, rows)
              ELSE ParseCsv(Tail(text), TRUE, FALSE, TRUE, Append(field, c), fields, rows)
         ELSE IF c = Comma
              THEN ParseCsv(Tail(text), FALSE, TRUE, TRUE, <<>>, Append(fields, field), rows)
         ELSE IF c \in {CR, LF}
              THEN LET skip == IF c = CR /\ Len(text) >= 2 /\ text[2] = LF THEN 3 ELSE 2
                       done == IF started THEN Append(fields, field) ELSE <<>>
                   IN ParseCsv(SubSeq(text, skip, Len(text)), FALSE, TRUE, FALSE,
                               <<>>, <<>>, Append(rows, done))
         ELSE IF c = Quote /\ fresh
              THEN ParseCsv(Tail(text), TRUE, FALSE, TRUE, field, fields, rows)
         ELSE ParseCsv(Tail(text), FALSE, FALSE, TRUE, Append(field, c), fields, rows)

CsvParse ==
    /\ cpc = "written"
    /\ parsed' = ParseCsv(raw, FALSE, TRUE, FALSE, <<>>, <<>>, <<>>)
    /\ cpc' = "parsed"
    /\ UNCHANGED <<linesep, row, raw>>

CsvNext ==
    \/ CsvWrite /\ UNCHANGED <<pipeVars, urlVars>>
    \/ CsvParse /\ UNCHANGED <<pipeVars, urlVars>>

SpecCsv == CsvInit /\ [][CsvNext]_vars

\* The parsed rows that are not blank lines.
ParsedRows == SelectSeq(parsed, LAMBDA r : r # <<>>)

\* C9 as stated: parsing the written file gives back the header row and the
\* data row, every cell holding the string that was written, whatever
\* characters the values hold (blank lines between rows are not counted).
C9_CsvRoundTrip ==
    cpc = "parsed" => ParsedRows = <<HeaderCells, row>>

====
